---- MODULE Spec2Model ----
(***************************************************************************)
(* Model of the market-journal-app core:                                   *)
(*   - the MongoDB connection cache (connectToDatabase, global             *)
(*     mongooseCache) executed by concurrent async callers on the          *)
(*     single-threaded JavaScript job queue;                               *)
(*   - the access guards: middleware + config.matcher, the protected       *)
(*     (root) layout and the auth layout, followed by a browser that       *)
(*     follows the redirects they issue.                                   *)
(***************************************************************************)
EXTENDS Integers, Sequences, FiniteSets, TLC

\* ------------------------------------------------------------------------
\* Bounds
\* ------------------------------------------------------------------------
\* number of connectToDatabase() invocations of one process run
MaxCallers == 4
\* number of redirects the browser follows before it gives up
MaxHops == 4

Callers == 1..MaxCallers
\* every invocation starts at most one mongoose.connect attempt
Attempts == 1..MaxCallers
\* number of re-evaluations of the connection module in one process
MaxReloads == 1
\* number of documents in the 'user' collection
MaxUsers == 2
\* invocations of getAuth() that may overlap
MaxAuthCallers == 4
AuthCallers == 1..MaxAuthCallers
\* the e-mail addresses that are typed into the forms
Emails == {"ana@example.com", "bob@example.com"}

\* ------------------------------------------------------------------------
\* State
\* ------------------------------------------------------------------------
VARIABLES
    \* --- connection cache ---
    uriSet,        \* MONGODB_URI is defined (read once at module load)
    conn,          \* cached.conn: NullConn or the resolved mongoose instance
    promise,       \* cached.promise: 0 (null) or the id of a connect promise
    pstate,        \* state of every promise returned by mongoose.connect
    reactions,     \* per promise: callers suspended on it, in await order
    jobs,          \* the job queue: pending invocations and continuations
    pc,            \* per caller: position inside connectToDatabase
    awaited,       \* per caller: the promise its await captured (0: none)
    result,        \* per caller: what connectToDatabase returned or threw
    sawConn,       \* per caller: cached.conn at the time of the invocation
    connectCalls,  \* number of mongoose.connect calls made so far
    reloads,       \* per re-evaluation of the module: what the cache held
    \* --- access guards ---
    layoutDef,     \* which of the two Layout definitions of app/(auth)/layout.tsx
                   \* serves the auth pages (1: first, 2: second)
    cred,          \* credential state of the browser for this navigation
    path,          \* path of the current request
    stage,         \* position of the current request in the server
    resp,          \* the last response produced by a guard
    guardBy,       \* which guard produced resp
    visited,       \* paths requested so far in this navigation
    hops,          \* redirects followed so far
    getSessionCalls, \* number of auth.api.getSession calls of this navigation
    \* --- watchlist collection ---
    watchlist,     \* the documents of the Watchlist collection, oldest first
    wlLast,        \* the last insertion that was attempted and its outcome
    \* --- Better Auth singleton ---
    authInstance,  \* the module variable authInstance: 0 (null) or an instance
    betterAuthCalls, \* number of betterAuth({...}) constructions so far
    gpc,           \* per caller: position inside getAuth
    gret,          \* per caller: the instance getAuth returned (0: none)
    \* --- sign-in and sign-up forms ---
    accounts,      \* the user records of the auth service, per email
    sub,           \* the form submission in progress
    fstage,        \* position of the submission between form and action
    cause,         \* what the auth service (or the transport) did with it
    actionResult,  \* the value the server action returned to the form
    events,        \* the events delivered to Inngest, oldest first
    toast,         \* the error notification on screen ("none": no toast)
    location,      \* the page the browser shows
    \* --- users of the news e-mail ---
    userColl,      \* the documents of the 'user' collection, oldest first
    newsLast       \* the last call of getAllUsersForNewsEmail and its result

cacheVars == <<uriSet, conn, promise, pstate, reactions, jobs, pc, awaited,
               result, sawConn, connectCalls, reloads>>
guardVars == <<layoutDef, cred, path, stage, resp, guardBy, visited, hops,
               getSessionCalls>>
watchVars == <<watchlist, wlLast>>
authVars == <<authInstance, betterAuthCalls, gpc, gret>>
formVars == <<accounts, sub, fstage, cause, actionResult, events, toast,
              location>>
newsVars == <<userColl, newsLast>>
vars == <<uriSet, conn, promise, pstate, reactions, jobs, pc, awaited,
          result, sawConn, connectCalls, reloads,
          layoutDef, cred, path, stage, resp, guardBy, visited, hops,
          getSessionCalls,
          watchlist, wlLast,
          authInstance, betterAuthCalls, gpc, gret,
          accounts, sub, fstage, cause, actionResult, events, toast,
          location,
          userColl, newsLast>>

\* ------------------------------------------------------------------------
\* Connection cache: values
\* ------------------------------------------------------------------------
\* the value mongoose.connect resolves with: cached.conn is declared as
\* `typeof mongoose`, the imported mongoose instance itself, so every
\* fulfilled attempt yields this one value
Mongoose == 1
\* null in cached.conn
NullConn == 0

NoResult == [kind |-> "none", val |-> 0]
\* return cached.conn
ConnResult(v) == [kind |-> "conn", val |-> v]
\* throw err: the rejection reason of connect attempt p
ConnectError(p) == [kind |-> "connectError", val |-> p]
\* throw new Error('MONGODB_URI must be set within .env')
ConfigError == [kind |-> "configError", val |-> 0]

CallJob(c) == [kind |-> "call", caller |-> c]
ResumeJob(c) == [kind |-> "resume", caller |-> c]

\* continuations of the callers in seq s, in order
RECURSIVE ResumeJobs(_)
ResumeJobs(s) ==
    IF s = <<>> THEN <<>> ELSE <<ResumeJob(Head(s))>> \o ResumeJobs(Tail(s))

\* cached = global.mongooseCache = { conn: null, promise: null }
CacheInit ==
    /\ uriSet \in BOOLEAN
    /\ conn = NullConn
    /\ promise = 0
    /\ pstate = [p \in Attempts |-> "unborn"]
    /\ reactions = [p \in Attempts |-> <<>>]
    /\ jobs = <<>>
    /\ pc = [c \in Callers |-> "idle"]
    /\ awaited = [c \in Callers |-> 0]
    /\ result = [c \in Callers |-> NoResult]
    /\ sawConn = [c \in Callers |-> NullConn]
    /\ connectCalls = 0
    /\ reloads = <<>>
    \* no navigation takes place
    /\ layoutDef = 2
    /\ cred = "none"
    /\ path = <<>>
    /\ stage = "off"
    /\ resp = [kind |-> "none", dest |-> <<>>]
    /\ guardBy = "none"
    /\ visited = {}
    /\ hops = 0
    /\ getSessionCalls = 0
    \* the watchlist collection is empty and untouched
    /\ watchlist = <<>>
    /\ wlLast = [userId |-> "none", raw |-> <<>>, outcome |-> "none"]
    \* getAuth has not been called
    /\ authInstance = 0
    /\ betterAuthCalls = 0
    /\ gpc = [c \in AuthCallers |-> "idle"]
    /\ gret = [c \in AuthCallers |-> 0]
    \* no form is in use
    /\ accounts = [e \in Emails |-> "none"]
    /\ sub = [form |-> "none", email |-> "none", password |-> "none",
              profile |-> [fullName |-> "none", country |-> "none",
                           investmentGoals |-> "none",
                           riskTolerance |-> "none",
                           preferredIndustry |-> "none"]]
    /\ fstage = "idle"
    /\ cause = "none"
    /\ actionResult = [success |-> FALSE, error |-> "unset", data |-> "none"]
    /\ events = <<>>
    /\ toast = "none"
    /\ location = "/sign-in"
    \* getAllUsersForNewsEmail has not been called
    /\ userColl = <<>>
    /\ newsLast = [called |-> FALSE, fault |-> "none", threw |-> FALSE,
                   users |-> <<>>]

\* ------------------------------------------------------------------------
\* Connection cache: operations
\* ------------------------------------------------------------------------
\* Some request handler schedules an invocation of connectToDatabase().
Request(c) ==
    /\ pc[c] = "idle"
    /\ pc' = [pc EXCEPT ![c] = "queued"]
    /\ jobs' = Append(jobs, CallJob(c))
    /\ UNCHANGED <<uriSet, conn, promise, pstate, reactions, awaited, result,
                   sawConn, connectCalls>>
    /\ UNCHANGED <<reloads, guardVars, watchVars, authVars, formVars,
                   newsVars>>

\* if(!MONGODB_URI): the configuration check before anything else
UriMissingDropped(u) == FALSE
UriMissing(u) == ~u

\* if(cached.conn): an established connection is reused
HasConnNever(cn) == FALSE
HasConn(cn) == cn # NullConn

\* if(!cached.promise): no connect promise is recorded, so one is created
NoPromise(pr) == pr = 0

\* catch (err) { cached.promise = null; ... }: the slot after a failed await
PromiseAfterFailureKept(pr) == pr
PromiseAfterFailure(pr) == 0

\* cached.conn = await cached.promise: the success path assigns cached.conn
\* only, cached.promise keeps the settled promise
PromiseAfterSuccessCleared(pr) == 0
PromiseAfterSuccess(pr) == pr

\* await p by caller c: suspended on a pending promise, or its continuation
\* is queued at once when p is already settled
AwaitReactions(c, p, ps) ==
    IF ps[p] = "pending"
    THEN [reactions EXCEPT ![p] = Append(@, c)]
    ELSE reactions

AwaitJobsLost(c, p, ps, q) == q
AwaitJobs(c, p, ps, q) ==
    IF ps[p] = "pending" THEN q ELSE Append(q, ResumeJob(c))

\* connectToDatabase(), from its entry to its first await (or early exit)
RunCall(c) ==
    /\ jobs # <<>>
    /\ Head(jobs) = CallJob(c)
    /\ sawConn' = [sawConn EXCEPT ![c] = conn]
    /\ IF UriMissing(uriSet)
       THEN \* throw new Error('MONGODB_URI must be set within .env')
            /\ result' = [result EXCEPT ![c] = ConfigError]
            /\ pc' = [pc EXCEPT ![c] = "done"]
            /\ jobs' = Tail(jobs)
            /\ UNCHANGED <<conn, promise, pstate, reactions, awaited,
                           connectCalls>>
       ELSE IF HasConn(conn)
       THEN \* return cached.conn
            /\ result' = [result EXCEPT ![c] = ConnResult(conn)]
            /\ pc' = [pc EXCEPT ![c] = "done"]
            /\ jobs' = Tail(jobs)
            /\ UNCHANGED <<conn, promise, pstate, reactions, awaited,
                           connectCalls>>
       ELSE LET fresh == connectCalls + 1
                \* cached.promise = mongoose.connect(MONGODB_URI, ...)
                p == IF NoPromise(promise) THEN fresh ELSE promise
                ps == IF NoPromise(promise)
                      THEN [pstate EXCEPT ![fresh] = "pending"]
                      ELSE pstate
            IN  /\ promise' = p
                /\ pstate' = ps
                /\ connectCalls' =
                       IF NoPromise(promise) THEN fresh ELSE connectCalls
                \* cached.conn = await cached.promise  (suspends here)
                /\ awaited' = [awaited EXCEPT ![c] = p]
                /\ reactions' = AwaitReactions(c, p, ps)
                /\ jobs' = AwaitJobs(c, p, ps, Tail(jobs))
                /\ pc' = [pc EXCEPT ![c] = "awaiting"]
                /\ UNCHANGED <<conn, result>>
    /\ UNCHANGED uriSet
    /\ UNCHANGED <<reloads, guardVars, watchVars, authVars, formVars,
                   newsVars>>

\* the driver settles the promise of connect attempt p; the continuations
\* of the callers suspended on it are queued in await order
Settle(p, ok) ==
    /\ pstate[p] = "pending"
    /\ pstate' = [pstate EXCEPT ![p] = IF ok THEN "fulfilled" ELSE "rejected"]
    /\ jobs' = jobs \o ResumeJobs(reactions[p])
    /\ reactions' = [reactions EXCEPT ![p] = <<>>]
    /\ UNCHANGED <<uriSet, conn, promise, pc, awaited, result, sawConn,
                   connectCalls>>
    /\ UNCHANGED <<reloads, guardVars, watchVars, authVars, formVars,
                   newsVars>>

\* connectToDatabase() after its await: the try/catch around the await
Resume(c) ==
    /\ jobs # <<>>
    /\ Head(jobs) = ResumeJob(c)
    /\ jobs' = Tail(jobs)
    /\ pc' = [pc EXCEPT ![c] = "done"]
    /\ IF pstate[awaited[c]] = "fulfilled"
       THEN \* cached.conn = <resolved value>; ...; return cached.conn
            /\ conn' = Mongoose
            /\ promise' = PromiseAfterSuccess(promise)
            /\ result' = [result EXCEPT ![c] = ConnResult(conn')]
       ELSE \* catch (err) { cached.promise = null; throw err }
            /\ promise' = PromiseAfterFailure(promise)
            /\ result' = [result EXCEPT ![c] = ConnectError(awaited[c])]
            /\ UNCHANGED conn
    /\ UNCHANGED <<uriSet, pstate, reactions, awaited, sawConn, connectCalls>>
    /\ UNCHANGED <<reloads, guardVars, watchVars, authVars, formVars,
                   newsVars>>

CacheNext ==
    \/ \E c \in Callers : Request(c)
    \/ \E c \in Callers : RunCall(c)
    \/ \E p \in Attempts, ok \in BOOLEAN : Settle(p, ok)
    \/ \E c \in Callers : Resume(c)

SpecCache == CacheInit /\ [][CacheNext]_vars

\* a cache kept in a variable of the module, created anew by each evaluation
CachedModuleLocal(g, defined) == [conn |-> NullConn, promise |-> 0]
\* let cached = global.mongooseCache;
\* if(!cached) cached = global.mongooseCache = {conn: null, promise: null}
Cached(g, defined) ==
    IF ~defined THEN [conn |-> NullConn, promise |-> 0] ELSE g

\* the connection module is evaluated again in the same process (hot
\* reload): global.mongooseCache was assigned by the first evaluation
ModuleReload ==
    LET g == [conn |-> conn, promise |-> promise]
        cached == Cached(g, TRUE)
    IN /\ Len(reloads) < MaxReloads
       /\ conn' = cached.conn
       /\ promise' = cached.promise
       /\ reloads' = Append(reloads,
                         [conn |-> conn, promise |-> promise,
                          pending |-> promise # 0
                                       /\ pstate[promise] = "pending"])
       /\ UNCHANGED <<uriSet, pstate, reactions, jobs, pc, awaited, result,
                      sawConn, connectCalls>>
       /\ UNCHANGED <<guardVars, watchVars, authVars, formVars, newsVars>>

ReloadNext ==
    \/ CacheNext
    \/ ModuleReload

SpecCacheReload == CacheInit /\ [][ReloadNext]_vars

\* the event loop runs every queued job: an invocation that was made is
\* executed and a continuation that was queued is resumed; whether the
\* driver ever settles a connect attempt is left open
SpecCacheLive ==
    /\ CacheInit
    /\ [][CacheNext]_vars
    /\ \A c \in Callers : WF_vars(RunCall(c))
    /\ \A c \in Callers : WF_vars(Resume(c))

\* ------------------------------------------------------------------------
\* Access guards: paths, matcher, session
\* ------------------------------------------------------------------------
\* paths are sequences of characters
RootPath == <<"/">>
SignInPath == <<"/", "s", "i", "g", "n", "-", "i", "n">>
SignUpPath == <<"/", "s", "i", "g", "n", "-", "u", "p">>
WatchlistPath == <<"/", "w", "a", "t", "c", "h", "l", "i", "s", "t">>
ApiAuthPath == <<"/", "a", "p", "i", "/", "a", "u", "t", "h">>
ApiInngestPath ==
    <<"/", "a", "p", "i", "/", "i", "n", "n", "g", "e", "s", "t">>
NextStaticPath == <<"/", "_", "n", "e", "x", "t", "/", "s", "t", "a", "t", "i", "c", "/", "a">>
NextImagePath == <<"/", "_", "n", "e", "x", "t", "/", "i", "m", "a", "g", "e">>
FaviconPath == <<"/", "f", "a", "v", "i", "c", "o", "n", ".", "i", "c", "o">>
AssetsPath == <<"/", "a", "s", "s", "e", "t", "s", "/", "a">>

\* the paths a browser requests
Paths == {RootPath, SignInPath, SignUpPath, WatchlistPath, ApiAuthPath,
          ApiInngestPath, NextStaticPath, NextImagePath, FaviconPath, AssetsPath}

\* no cookie; a cookie whose session is invalid or expired; a cookie of a
\* valid session with a user
Creds == {"none", "invalid", "valid"}

\* a lookahead that reserves only the auth service's sub-path of /api
ExclusionsApiAuthOnly ==
    {<<"a", "p", "i", "/", "a", "u", "t", "h">>,
     <<"_", "n", "e", "x", "t", "/", "s", "t", "a", "t", "i", "c">>,
     <<"_", "n", "e", "x", "t", "/", "i", "m", "a", "g", "e">>,
     <<"f", "a", "v", "i", "c", "o", "n", "ANY", "i", "c", "o">>,
     <<"s", "i", "g", "n", "-", "i", "n">>,
     <<"s", "i", "g", "n", "-", "u", "p">>,
     <<"a", "s", "s", "e", "t", "s">>}
\* the alternatives of the matcher's negative lookahead; "ANY" is the
\* regular expression's '.'
Exclusions == {<<"a", "p", "i">>,
               <<"_", "n", "e", "x", "t", "/", "s", "t", "a", "t", "i", "c">>,
               <<"_", "n", "e", "x", "t", "/", "i", "m", "a", "g", "e">>,
               <<"f", "a", "v", "i", "c", "o", "n", "ANY", "i", "c", "o">>,
               <<"s", "i", "g", "n", "-", "i", "n">>,
               <<"s", "i", "g", "n", "-", "u", "p">>,
               <<"a", "s", "s", "e", "t", "s">>}

\* the sign-in and sign-up pages, which the matcher leaves unguarded
PublicEntryPoints == {SignInPath, SignUpPath}

\* pattern pt matches a prefix of the character sequence s
PrefixMatch(pt, s) ==
    /\ Len(pt) <= Len(s)
    /\ \A i \in 1..Len(pt) : pt[i] = "ANY" \/ pt[i] = s[i]

\* config.matcher: '/((?!api|_next/static|...|assets).*)' against the path
Matcher(pth) ==
    /\ Len(pth) >= 1
    /\ pth[1] = "/"
    /\ \A pt \in Exclusions : ~PrefixMatch(pt, Tail(pth))

\* a cookie check that would also validate the session
GetSessionCookieValidated(cr) == cr = "valid"
\* getSessionCookie(request): truthy iff the request carries the cookie
GetSessionCookie(cr) == cr # "none"

\* a session check that would accept any cookie that is present
SessionUserByPresence(cr) == cr # "none"
\* auth.api.getSession({headers}): session?.user is set iff the cookie
\* resolves to a valid session
SessionUser(cr) == cr = "valid"

\* the destination of the middleware's redirect: new URL("/", request.url)
MiddlewareRedirect == RootPath
\* redirect('/sign-in') of the protected layout
RootLayoutRedirect == SignInPath
\* redirect('/') of the auth layout
AuthLayoutRedirect == RootPath

\* which layout serves a path: the (auth) group holds sign-in and sign-up,
\* paths outside the pages (api, assets, generated files) have no layout,
\* every other page is wrapped by the (root) layout
RouteOf(pth) ==
    IF pth \in PublicEntryPoints THEN "auth"
    ELSE IF Matcher(pth) THEN "root"
    ELSE "none"

NoResp == [kind |-> "none", dest |-> <<>>]
Redirect(d) == [kind |-> "redirect", dest |-> d]
Pass == [kind |-> "next", dest |-> <<>>]
Render == [kind |-> "render", dest |-> <<>>]
Served == [kind |-> "served", dest |-> <<>>]

\* a browser with a fixed credential state requests a path
GuardInit ==
    /\ layoutDef \in {1, 2}
    /\ cred \in Creds
    /\ path \in Paths
    /\ stage = "request"
    /\ resp = NoResp
    /\ guardBy = "none"
    /\ visited = {path}
    /\ hops = 0
    /\ getSessionCalls = 0
    \* the connection cache is as initialised and unused
    /\ uriSet = TRUE
    /\ conn = NullConn
    /\ promise = 0
    /\ pstate = [p \in Attempts |-> "unborn"]
    /\ reactions = [p \in Attempts |-> <<>>]
    /\ jobs = <<>>
    /\ pc = [c \in Callers |-> "idle"]
    /\ awaited = [c \in Callers |-> 0]
    /\ result = [c \in Callers |-> NoResult]
    /\ sawConn = [c \in Callers |-> NullConn]
    /\ connectCalls = 0
    /\ reloads = <<>>
    \* the watchlist collection is empty and untouched
    /\ watchlist = <<>>
    /\ wlLast = [userId |-> "none", raw |-> <<>>, outcome |-> "none"]
    \* getAuth has not been called
    /\ authInstance = 0
    /\ betterAuthCalls = 0
    /\ gpc = [c \in AuthCallers |-> "idle"]
    /\ gret = [c \in AuthCallers |-> 0]
    \* no form is in use
    /\ accounts = [e \in Emails |-> "none"]
    /\ sub = [form |-> "none", email |-> "none", password |-> "none",
              profile |-> [fullName |-> "none", country |-> "none",
                           investmentGoals |-> "none",
                           riskTolerance |-> "none",
                           preferredIndustry |-> "none"]]
    /\ fstage = "idle"
    /\ cause = "none"
    /\ actionResult = [success |-> FALSE, error |-> "unset", data |-> "none"]
    /\ events = <<>>
    /\ toast = "none"
    /\ location = "/sign-in"
    \* getAllUsersForNewsEmail has not been called
    /\ userColl = <<>>
    /\ newsLast = [called |-> FALSE, fault |-> "none", threw |-> FALSE,
                   users |-> <<>>]

\* ------------------------------------------------------------------------
\* Access guards: operations
\* ------------------------------------------------------------------------
\* the request path is outside config.matcher: middleware() is not invoked
MatcherSkip ==
    /\ stage = "request"
    /\ ~Matcher(path)
    /\ stage' = "route"
    /\ UNCHANGED <<layoutDef, cred, path, resp, guardBy, visited, hops,
                   getSessionCalls>>
    /\ UNCHANGED <<cacheVars, watchVars, authVars, formVars,
                   newsVars>>

\* middleware(request)
Middleware ==
    /\ stage = "request"
    /\ Matcher(path)
    /\ guardBy' = "middleware"
    /\ IF ~GetSessionCookie(cred)
       THEN \* return NextResponse.redirect(new URL("/", request.url))
            /\ resp' = Redirect(MiddlewareRedirect)
            /\ stage' = "redirected"
       ELSE \* return NextResponse.next()
            /\ resp' = Pass
            /\ stage' = "route"
    /\ UNCHANGED <<layoutDef, cred, path, visited, hops, getSessionCalls>>
    /\ UNCHANGED <<cacheVars, watchVars, authVars, formVars,
                   newsVars>>

\* Layout of app/(root): the protected layout
RootLayout ==
    /\ stage = "route"
    /\ RouteOf(path) = "root"
    /\ guardBy' = "rootLayout"
    /\ getSessionCalls' = getSessionCalls + 1
    /\ IF ~SessionUser(cred)
       THEN \* if(!session?.user) redirect('/sign-in')
            /\ resp' = Redirect(RootLayoutRedirect)
            /\ stage' = "redirected"
       ELSE \* <Header user={user} /> and {children}
            /\ resp' = Render
            /\ stage' = "rendered"
    /\ UNCHANGED <<layoutDef, cred, path, visited, hops>>
    /\ UNCHANGED <<cacheVars, watchVars, authVars, formVars,
                   newsVars>>

\* Layout of app/(auth), first definition: renders the form unconditionally
AuthLayoutPlain ==
    /\ stage = "route"
    /\ RouteOf(path) = "auth"
    /\ layoutDef = 1
    /\ guardBy' = "authLayout"
    /\ resp' = Render
    /\ stage' = "rendered"
    /\ UNCHANGED <<layoutDef, cred, path, visited, hops, getSessionCalls>>
    /\ UNCHANGED <<cacheVars, watchVars, authVars, formVars,
                   newsVars>>

\* Layout of app/(auth), second definition: the reverse guard
AuthLayout ==
    /\ stage = "route"
    /\ RouteOf(path) = "auth"
    /\ layoutDef = 2
    /\ guardBy' = "authLayout"
    /\ getSessionCalls' = getSessionCalls + 1
    /\ IF SessionUser(cred)
       THEN \* if(session?.user) redirect('/')
            /\ resp' = Redirect(AuthLayoutRedirect)
            /\ stage' = "redirected"
       ELSE /\ resp' = Render
            /\ stage' = "rendered"
    /\ UNCHANGED <<layoutDef, cred, path, visited, hops>>
    /\ UNCHANGED <<cacheVars, watchVars, authVars, formVars,
                   newsVars>>

\* api routes, assets and generated files are answered without a layout
ServeDirect ==
    /\ stage = "route"
    /\ RouteOf(path) = "none"
    /\ guardBy' = "none"
    /\ resp' = Served
    /\ stage' = "rendered"
    /\ UNCHANGED <<layoutDef, cred, path, visited, hops, getSessionCalls>>
    /\ UNCHANGED <<cacheVars, watchVars, authVars, formVars,
                   newsVars>>

\* the browser follows the redirect with the same cookies
FollowRedirect ==
    /\ stage = "redirected"
    /\ hops < MaxHops
    /\ path' = resp.dest
    /\ visited' = visited \cup {resp.dest}
    /\ hops' = hops + 1
    /\ stage' = "request"
    /\ resp' = NoResp
    /\ guardBy' = "none"
    /\ UNCHANGED <<layoutDef, cred, getSessionCalls>>
    /\ UNCHANGED <<cacheVars, watchVars, authVars, formVars,
                   newsVars>>

GuardNext ==
    \/ MatcherSkip
    \/ Middleware
    \/ RootLayout
    \/ AuthLayoutPlain
    \/ AuthLayout
    \/ ServeDirect
    \/ FollowRedirect

SpecGuard == GuardInit /\ [][GuardNext]_vars

\* ------------------------------------------------------------------------
\* Watchlist collection
\* ------------------------------------------------------------------------
\* the users that own watchlist items
UserIds == {"u1", "u2"}

\* the symbols as they are passed to the model, before the schema's setters
Aapl == <<"a", "a", "p", "l">>
AaplPadded == <<" ", "A", "A", "P", "L", " ">>
AaplUpper == <<"A", "A", "P", "L">>
Msft == <<"m", "s", "f", "t">>
Blank == <<" ", " ">>
RawSymbols == {Aapl, AaplPadded, AaplUpper, Msft, Blank}

Whitespace == {" "}
LowerCase == <<"a", "b", "c", "d", "e", "f", "g", "h", "i", "j", "k", "l",
               "m", "n", "o", "p", "q", "r", "s", "t", "u", "v", "w", "x",
               "y", "z">>
UpperCase == <<"A", "B", "C", "D", "E", "F", "G", "H", "I", "J", "K", "L",
               "M", "N", "O", "P", "Q", "R", "S", "T", "U", "V", "W", "X",
               "Y", "Z">>

\* uppercase: true, the setter that upper-cases the value
ToUpperCase(str) ==
    [i \in 1..Len(str) |->
        IF \E k \in 1..Len(LowerCase) : LowerCase[k] = str[i]
        THEN UpperCase[CHOOSE k \in 1..Len(LowerCase) : LowerCase[k] = str[i]]
        ELSE str[i]]

RECURSIVE TrimStart(_)
TrimStart(str) ==
    IF str # <<>> /\ Head(str) \in Whitespace THEN TrimStart(Tail(str))
    ELSE str

RECURSIVE TrimEnd(_)
TrimEnd(str) ==
    IF str # <<>> /\ str[Len(str)] \in Whitespace
    THEN TrimEnd(SubSeq(str, 1, Len(str) - 1))
    ELSE str

\* trim: true, the setter that removes leading and trailing whitespace
Trim(str) == TrimEnd(TrimStart(str))

\* a schema whose symbol field has no setters
SymbolSetterNone(raw) == raw
\* the value of the symbol field after the schema's setters have run
SymbolSetter(raw) == Trim(ToUpperCase(raw))

\* required: true on a String path: the empty string does not validate
RequiredFails(str) == str = <<>>

\* the unique compound index {userId: 1, symbol: 1}: the key is taken already
DuplicateKey(coll, u, sym) ==
    \E i \in 1..Len(coll) : coll[i].userId = u /\ coll[i].symbol = sym

\* the collection is created empty
WatchlistInit ==
    /\ watchlist = <<>>
    /\ wlLast = [userId |-> "none", raw |-> <<>>, outcome |-> "none"]
    \* the connection cache is as initialised and unused
    /\ uriSet = TRUE
    /\ conn = NullConn
    /\ promise = 0
    /\ pstate = [p \in Attempts |-> "unborn"]
    /\ reactions = [p \in Attempts |-> <<>>]
    /\ jobs = <<>>
    /\ pc = [c \in Callers |-> "idle"]
    /\ awaited = [c \in Callers |-> 0]
    /\ result = [c \in Callers |-> NoResult]
    /\ sawConn = [c \in Callers |-> NullConn]
    /\ connectCalls = 0
    /\ reloads = <<>>
    \* no navigation takes place
    /\ layoutDef = 2
    /\ cred = "none"
    /\ path = <<>>
    /\ stage = "off"
    /\ resp = [kind |-> "none", dest |-> <<>>]
    /\ guardBy = "none"
    /\ visited = {}
    /\ hops = 0
    /\ getSessionCalls = 0
    \* getAuth has not been called
    /\ authInstance = 0
    /\ betterAuthCalls = 0
    /\ gpc = [c \in AuthCallers |-> "idle"]
    /\ gret = [c \in AuthCallers |-> 0]
    \* no form is in use
    /\ accounts = [e \in Emails |-> "none"]
    /\ sub = [form |-> "none", email |-> "none", password |-> "none",
              profile |-> [fullName |-> "none", country |-> "none",
                           investmentGoals |-> "none",
                           riskTolerance |-> "none",
                           preferredIndustry |-> "none"]]
    /\ fstage = "idle"
    /\ cause = "none"
    /\ actionResult = [success |-> FALSE, error |-> "unset", data |-> "none"]
    /\ events = <<>>
    /\ toast = "none"
    /\ location = "/sign-in"
    \* getAllUsersForNewsEmail has not been called
    /\ userColl = <<>>
    /\ newsLast = [called |-> FALSE, fault |-> "none", threw |-> FALSE,
                   users |-> <<>>]

\* Watchlist.create({userId: u, symbol: raw, ...}): setters, validation,
\* then the insert under the unique index
InsertItem(u, raw) ==
    LET sym == SymbolSetter(raw) IN
    /\ IF RequiredFails(sym)
       THEN /\ wlLast' = [userId |-> u, raw |-> raw,
                          outcome |-> "ValidationError"]
            /\ UNCHANGED watchlist
       ELSE IF DuplicateKey(watchlist, u, sym)
       THEN /\ wlLast' = [userId |-> u, raw |-> raw,
                          outcome |-> "DuplicateKey"]
            /\ UNCHANGED watchlist
       ELSE /\ wlLast' = [userId |-> u, raw |-> raw, outcome |-> "inserted"]
            /\ watchlist' = Append(watchlist, [userId |-> u, symbol |-> sym])
    /\ UNCHANGED <<cacheVars, guardVars, authVars, formVars,
                   newsVars>>

WatchlistNext == \E u \in UserIds, raw \in RawSymbols : InsertItem(u, raw)

SpecWatchlist == WatchlistInit /\ [][WatchlistNext]_vars

\* ------------------------------------------------------------------------
\* Better Auth singleton
\* ------------------------------------------------------------------------
\* what the awaited connectToDatabase() gives a caller of getAuth: a
\* connection with a database, a connection without one, or a rejection
ConnectOutcomes == {"db", "noDb", "rejected"}

\* if(authInstance)
HasInstance(ai) == ai # 0

\* the module is loaded: let authInstance = null
AuthInit ==
    /\ authInstance = 0
    /\ betterAuthCalls = 0
    /\ gpc = [c \in AuthCallers |-> "idle"]
    /\ gret = [c \in AuthCallers |-> 0]
    \* the connection cache is as initialised and unused
    /\ uriSet = TRUE
    /\ conn = NullConn
    /\ promise = 0
    /\ pstate = [p \in Attempts |-> "unborn"]
    /\ reactions = [p \in Attempts |-> <<>>]
    /\ jobs = <<>>
    /\ pc = [c \in Callers |-> "idle"]
    /\ awaited = [c \in Callers |-> 0]
    /\ result = [c \in Callers |-> NoResult]
    /\ sawConn = [c \in Callers |-> NullConn]
    /\ connectCalls = 0
    /\ reloads = <<>>
    \* no navigation takes place
    /\ layoutDef = 2
    /\ cred = "none"
    /\ path = <<>>
    /\ stage = "off"
    /\ resp = [kind |-> "none", dest |-> <<>>]
    /\ guardBy = "none"
    /\ visited = {}
    /\ hops = 0
    /\ getSessionCalls = 0
    \* the watchlist collection is empty and untouched
    /\ watchlist = <<>>
    /\ wlLast = [userId |-> "none", raw |-> <<>>, outcome |-> "none"]
    \* no form is in use
    /\ accounts = [e \in Emails |-> "none"]
    /\ sub = [form |-> "none", email |-> "none", password |-> "none",
              profile |-> [fullName |-> "none", country |-> "none",
                           investmentGoals |-> "none",
                           riskTolerance |-> "none",
                           preferredIndustry |-> "none"]]
    /\ fstage = "idle"
    /\ cause = "none"
    /\ actionResult = [success |-> FALSE, error |-> "unset", data |-> "none"]
    /\ events = <<>>
    /\ toast = "none"
    /\ location = "/sign-in"
    \* getAllUsersForNewsEmail has not been called
    /\ userColl = <<>>
    /\ newsLast = [called |-> FALSE, fault |-> "none", threw |-> FALSE,
                   users |-> <<>>]

\* getAuth(), from its entry to the early return or to the await of
\* connectToDatabase()
GetAuthCall(c) ==
    /\ gpc[c] = "idle"
    /\ IF HasInstance(authInstance)
       THEN \* if(authInstance) return authInstance
            /\ gret' = [gret EXCEPT ![c] = authInstance]
            /\ gpc' = [gpc EXCEPT ![c] = "returned"]
       ELSE \* const mongoose = await connectToDatabase()
            /\ gpc' = [gpc EXCEPT ![c] = "connecting"]
            /\ UNCHANGED gret
    /\ UNCHANGED <<authInstance, betterAuthCalls>>
    /\ UNCHANGED <<cacheVars, guardVars, watchVars, formVars,
                   newsVars>>

\* getAuth(), from the settlement of connectToDatabase() to its end
GetAuthResume(c, outcome) ==
    /\ gpc[c] = "connecting"
    /\ IF outcome = "rejected"
       THEN \* the rejection of connectToDatabase() leaves getAuth
            /\ gpc' = [gpc EXCEPT ![c] = "threw"]
            /\ UNCHANGED <<authInstance, betterAuthCalls, gret>>
       ELSE IF outcome = "noDb"
       THEN \* if(!db) throw new Error('MongoDB connection not found')
            /\ gpc' = [gpc EXCEPT ![c] = "threw"]
            /\ UNCHANGED <<authInstance, betterAuthCalls, gret>>
       ELSE \* authInstance = betterAuth({...}); return authInstance
            /\ betterAuthCalls' = betterAuthCalls + 1
            /\ authInstance' = betterAuthCalls + 1
            /\ gret' = [gret EXCEPT ![c] = betterAuthCalls + 1]
            /\ gpc' = [gpc EXCEPT ![c] = "returned"]
    /\ UNCHANGED <<cacheVars, guardVars, watchVars, formVars,
                   newsVars>>

AuthNext ==
    \/ \E c \in AuthCallers : GetAuthCall(c)
    \/ \E c \in AuthCallers, outcome \in ConnectOutcomes :
          GetAuthResume(c, outcome)

SpecAuth == AuthInit /\ [][AuthNext]_vars

\* ------------------------------------------------------------------------
\* Sign-in and sign-up: server actions and forms
\* ------------------------------------------------------------------------
\* a password the auth service accepts for the account (sign-in) or as a new
\* password (sign-up), and one it does not
Passwords == {"good", "bad"}

\* failures of the infrastructure behind the auth service
Faults == {"none", "network", "database"}

\* whether inngest.send delivers the event or throws
InngestOutcomes == {"sent", "unavailable"}

\* an account that does not exist, one that can sign in, one that is blocked
AccountStates == {"none", "active", "disabled"}

SignInPage == "/sign-in"
SignUpPage == "/sign-up"
HomePage == "/"

\* the page that holds a form
FormPage(form) == IF form = "signIn" THEN SignInPage ELSE SignUpPage

\* the fields of the sign-up form besides e-mail and password
Profiles ==
    {[fullName |-> "Ana Diaz", country |-> "CO",
      investmentGoals |-> "Growth", riskTolerance |-> "Low",
      preferredIndustry |-> "Technology"],
     [fullName |-> "Bob Ruiz", country |-> "US",
      investmentGoals |-> "Income", riskTolerance |-> "High",
      preferredIndustry |-> "Energy"]}

\* the sign-in form has e-mail and password only
NoProfile == [fullName |-> "none", country |-> "none",
              investmentGoals |-> "none", riskTolerance |-> "none",
              preferredIndustry |-> "none"]

\* the fields a form submits
FormData(form) == IF form = "signUp" THEN Profiles ELSE {NoProfile}

NoSubmission == [form |-> "none", email |-> "none", password |-> "none",
                 profile |-> NoProfile]
NoActionResult == [success |-> FALSE, error |-> "unset", data |-> "none"]

\* auth.api.signInEmail({body: {email, password}}): "ok" when it returns a
\* response, otherwise the reason it throws
SignInEmail(acc, email, password, fault) ==
    IF fault # "none" THEN fault
    ELSE IF acc[email] = "none" THEN "unknownEmail"
    ELSE IF password = "bad" THEN "wrongPassword"
    ELSE IF acc[email] = "disabled" THEN "disabled"
    ELSE "ok"

\* auth.api.signUpEmail({body: {email, password, name}}): "ok" when it returns
\* a response, otherwise the reason it throws
SignUpEmail(acc, email, password, fault) ==
    IF fault # "none" THEN fault
    ELSE IF password = "bad" THEN "weakPassword"
    ELSE IF acc[email] # "none" THEN "userExists"
    ELSE "ok"

\* return { success: true, data: response }
ActionSuccess(email) == [success |-> TRUE, error |-> "none", data |-> email]

\* a catch block that would hand the reason of the failure to the client
SignInFailureDetailed(reason) ==
    [success |-> FALSE, error |-> reason, data |-> "none"]
\* catch (e) { return { success: false, error: 'Sign in failed' } }
SignInFailure(reason) ==
    [success |-> FALSE, error |-> "Sign in failed", data |-> "none"]

\* catch (e) { return { success: false, error: 'Sign up failed' } }
SignUpFailure(reason) ==
    [success |-> FALSE, error |-> "Sign up failed", data |-> "none"]

\* an event that would carry the e-mail and the name only
UserCreatedBare(s) ==
    [name |-> "app/user.created",
     data |-> [email |-> s.email, name |-> s.profile.fullName,
               country |-> "none", investmentGoals |-> "none",
               riskTolerance |-> "none", preferredIndustry |-> "none"]]
\* inngest.send({name: 'app/user.created', data: {email, name: fullName,
\* country, investmentGoals, riskTolerance, preferredIndustry}})
UserCreated(s) ==
    [name |-> "app/user.created",
     data |-> [email |-> s.email, name |-> s.profile.fullName,
               country |-> s.profile.country,
               investmentGoals |-> s.profile.investmentGoals,
               riskTolerance |-> s.profile.riskTolerance,
               preferredIndustry |-> s.profile.preferredIndustry]]

\* signOut(): the function ends without a return statement
Undefined == [success |-> FALSE, error |-> "none", data |-> "undefined"]

\* a catch block that would throw the error again
SignOutFailureRethrown(reason) ==
    [success |-> FALSE, error |-> reason, data |-> "thrown"]
\* catch (e) { return { success: false, error: 'Sign out failed' } }
SignOutFailure(reason) ==
    [success |-> FALSE, error |-> "Sign out failed", data |-> "none"]

\* toast.error('Sign in failed', ...) and toast.error('Sign up failed', ...)
ToastTitle(form) ==
    IF form = "signIn" THEN "Sign in failed" ELSE "Sign up failed"

\* the browser shows the sign-in form; the auth service holds any accounts
FormInit ==
    /\ accounts \in [Emails -> AccountStates]
    /\ sub = NoSubmission
    /\ fstage = "idle"
    /\ cause = "none"
    /\ actionResult = NoActionResult
    /\ events = <<>>
    /\ toast = "none"
    /\ location = SignInPage
    \* getAllUsersForNewsEmail has not been called
    /\ userColl = <<>>
    /\ newsLast = [called |-> FALSE, fault |-> "none", threw |-> FALSE,
                   users |-> <<>>]
    \* the connection cache is as initialised and unused
    /\ uriSet = TRUE
    /\ conn = NullConn
    /\ promise = 0
    /\ pstate = [p \in Attempts |-> "unborn"]
    /\ reactions = [p \in Attempts |-> <<>>]
    /\ jobs = <<>>
    /\ pc = [c \in Callers |-> "idle"]
    /\ awaited = [c \in Callers |-> 0]
    /\ result = [c \in Callers |-> NoResult]
    /\ sawConn = [c \in Callers |-> NullConn]
    /\ connectCalls = 0
    /\ reloads = <<>>
    \* no navigation takes place
    /\ layoutDef = 2
    /\ cred = "none"
    /\ path = <<>>
    /\ stage = "off"
    /\ resp = [kind |-> "none", dest |-> <<>>]
    /\ guardBy = "none"
    /\ visited = {}
    /\ hops = 0
    /\ getSessionCalls = 0
    \* the watchlist collection is empty and untouched
    /\ watchlist = <<>>
    /\ wlLast = [userId |-> "none", raw |-> <<>>, outcome |-> "none"]
    \* getAuth has not been called
    /\ authInstance = 0
    /\ betterAuthCalls = 0
    /\ gpc = [c \in AuthCallers |-> "idle"]
    /\ gret = [c \in AuthCallers |-> 0]

\* the user follows the link to the other form, or comes back to a form from
\* the home page; notifications of the previous page have gone
OpenForm(form) ==
    /\ fstage \in {"idle", "settled"}
    /\ location # FormPage(form)
    /\ location' = FormPage(form)
    /\ sub' = NoSubmission
    /\ fstage' = "idle"
    /\ cause' = "none"
    /\ actionResult' = NoActionResult
    /\ toast' = "none"
    /\ UNCHANGED <<accounts, events>>
    /\ UNCHANGED <<cacheVars, guardVars, watchVars, authVars,
                   newsVars>>

\* onSubmit(data) up to the await of the server action; notifications of an
\* earlier submission have expired
Submit(form, email, password, profile) ==
    /\ fstage \in {"idle", "settled"}
    /\ location = FormPage(form)
    /\ sub' = [form |-> form, email |-> email, password |-> password,
               profile |-> profile]
    /\ fstage' = "called"
    /\ cause' = "none"
    /\ actionResult' = NoActionResult
    /\ toast' = "none"
    /\ UNCHANGED <<accounts, events, location>>
    /\ UNCHANGED <<cacheVars, guardVars, watchVars, authVars,
                   newsVars>>

\* signInWithEmail({email, password})
SignInWithEmail(fault) ==
    LET outcome == SignInEmail(accounts, sub.email, sub.password, fault) IN
    /\ fstage = "called"
    /\ sub.form = "signIn"
    /\ cause' = outcome
    /\ actionResult' = IF outcome = "ok" THEN ActionSuccess(sub.email)
                       ELSE SignInFailure(outcome)
    /\ fstage' = "returned"
    /\ UNCHANGED <<accounts, sub, events, toast, location>>
    /\ UNCHANGED <<cacheVars, guardVars, watchVars, authVars,
                   newsVars>>

\* signUpWithEmail({email, password, fullName, ...})
SignUpWithEmail(fault, delivery) ==
    LET outcome == SignUpEmail(accounts, sub.email, sub.password, fault) IN
    /\ fstage = "called"
    /\ sub.form = "signUp"
    /\ IF outcome # "ok"
       THEN \* auth.api.signUpEmail throws
            /\ cause' = outcome
            /\ actionResult' = SignUpFailure(outcome)
            /\ UNCHANGED <<accounts, events>>
       ELSE IF delivery = "unavailable"
       THEN \* the account exists, inngest.send throws
            /\ accounts' = [accounts EXCEPT ![sub.email] = "active"]
            /\ cause' = "inngest"
            /\ actionResult' = SignUpFailure("inngest")
            /\ UNCHANGED events
       ELSE \* if (response) { await inngest.send({...}) }
            /\ accounts' = [accounts EXCEPT ![sub.email] = "active"]
            /\ events' = Append(events, UserCreated(sub))
            /\ cause' = "ok"
            /\ actionResult' = ActionSuccess(sub.email)
    /\ fstage' = "returned"
    /\ UNCHANGED <<sub, toast, location>>
    /\ UNCHANGED <<cacheVars, guardVars, watchVars, authVars,
                   newsVars>>

\* the call of the server action is rejected in the browser: the request
\* does not reach the action
ActionCallRejects ==
    /\ fstage = "called"
    /\ cause' = "transport"
    /\ fstage' = "threw"
    /\ UNCHANGED <<accounts, sub, actionResult, events, toast, location>>
    /\ UNCHANGED <<cacheVars, guardVars, watchVars, authVars,
                   newsVars>>

\* onSubmit after the await: if(result.success) router.push('/')
OnSubmitResult ==
    /\ fstage = "returned"
    /\ sub.form \in {"signIn", "signUp"}
    /\ location' = IF actionResult.success THEN HomePage ELSE location
    /\ fstage' = "settled"
    /\ UNCHANGED <<accounts, sub, cause, actionResult, events, toast>>
    /\ UNCHANGED <<cacheVars, guardVars, watchVars, authVars,
                   newsVars>>

\* onSubmit, catch (e): toast.error(...)
OnSubmitCatch ==
    /\ fstage = "threw"
    /\ toast' = ToastTitle(sub.form)
    /\ fstage' = "settled"
    /\ UNCHANGED <<accounts, sub, cause, actionResult, events, location>>
    /\ UNCHANGED <<cacheVars, guardVars, watchVars, authVars,
                   newsVars>>

\* signOut(), called on the home page by a client component
SignOut(fault) ==
    /\ fstage \in {"idle", "settled"}
    /\ location = HomePage
    /\ sub' = [NoSubmission EXCEPT !.form = "signOut"]
    /\ IF fault # "none"
       THEN \* auth.api.signOut throws
            /\ cause' = fault
            /\ actionResult' = SignOutFailure(fault)
       ELSE \* the body of the try block ends
            /\ cause' = "ok"
            /\ actionResult' = Undefined
    /\ fstage' = "settled"
    /\ UNCHANGED <<accounts, events, toast, location>>
    /\ UNCHANGED <<cacheVars, guardVars, watchVars, authVars,
                   newsVars>>

FormNext ==
    \/ \E form \in {"signIn", "signUp"} : OpenForm(form)
    \/ \E form \in {"signIn", "signUp"}, email \in Emails,
          password \in Passwords :
          \E profile \in FormData(form) :
              Submit(form, email, password, profile)
    \/ \E fault \in Faults : SignOut(fault)
    \/ \E fault \in Faults : SignInWithEmail(fault)
    \/ \E fault \in Faults, delivery \in InngestOutcomes :
          SignUpWithEmail(fault, delivery)
    \/ ActionCallRejects
    \/ OnSubmitResult
    \/ OnSubmitCatch

SpecForm == FormInit /\ [][FormNext]_vars

\* ------------------------------------------------------------------------
\* Users of the news e-mail
\* ------------------------------------------------------------------------
\* a field that is absent from a document, and one stored as null
Absent == "undefined"
Null == "null"

\* the values of the fields of a stored user document
EmailValues == {Absent, Null, "", "ana@example.com"}
NameValues == {Absent, "", "Ana"}
IdValues == {Absent, "usr-1"}

\* what the steps of getAllUsersForNewsEmail can fail with
NewsFaults == {"none", "connect", "noDb", "query"}

\* the hexadecimal strings of the ObjectIds the collection hands out
ObjectIdHex == <<"65a1", "65a2", "65a3", "65a4">>

\* user._id?.toString(): undefined without an _id
ObjectIdToString(oid) == IF oid = 0 THEN Absent ELSE ObjectIdHex[oid]

\* the truthiness of a field value
Truthy(v) == v \notin {Absent, Null, ""}

\* the query filter {email: {$exists: true, $ne: null}}
QueryMatches(doc) == doc.email \notin {Absent, Null}

\* a filter that would look at the e-mail only
KeepUserByEmail(doc) == Truthy(doc.email)
\* .filter((user) => user.email && user.name)
KeepUser(doc) == Truthy(doc.email) /\ Truthy(doc.name)

\* user.id || user._id?.toString() || ''
UserId(doc) ==
    IF Truthy(doc.id) THEN doc.id
    ELSE IF Truthy(ObjectIdToString(doc.oid)) THEN ObjectIdToString(doc.oid)
    ELSE ""

\* .map((user) => ({id: ..., email: user.email, name: user.name}))
MapUser(doc) == [id |-> UserId(doc), email |-> doc.email, name |-> doc.name]

RECURSIVE MapUsers(_)
MapUsers(docs) ==
    IF docs = <<>> THEN <<>>
    ELSE <<MapUser(Head(docs))>> \o MapUsers(Tail(docs))

\* find(...).toArray() followed by filter and map
SelectUsers(coll) ==
    MapUsers(SelectSeq(SelectSeq(coll, QueryMatches), KeepUser))

\* catch (e) { return [] }
NewsFailure(fault) ==
    [called |-> TRUE, fault |-> fault, threw |-> FALSE, users |-> <<>>]

\* the 'user' collection is empty
NewsInit ==
    /\ userColl = <<>>
    /\ newsLast = [called |-> FALSE, fault |-> "none", threw |-> FALSE,
                   users |-> <<>>]
    \* the connection cache is as initialised and unused
    /\ uriSet = TRUE
    /\ conn = NullConn
    /\ promise = 0
    /\ pstate = [p \in Attempts |-> "unborn"]
    /\ reactions = [p \in Attempts |-> <<>>]
    /\ jobs = <<>>
    /\ pc = [c \in Callers |-> "idle"]
    /\ awaited = [c \in Callers |-> 0]
    /\ result = [c \in Callers |-> NoResult]
    /\ sawConn = [c \in Callers |-> NullConn]
    /\ connectCalls = 0
    /\ reloads = <<>>
    \* no navigation takes place
    /\ layoutDef = 2
    /\ cred = "none"
    /\ path = <<>>
    /\ stage = "off"
    /\ resp = [kind |-> "none", dest |-> <<>>]
    /\ guardBy = "none"
    /\ visited = {}
    /\ hops = 0
    /\ getSessionCalls = 0
    \* the watchlist collection is empty and untouched
    /\ watchlist = <<>>
    /\ wlLast = [userId |-> "none", raw |-> <<>>, outcome |-> "none"]
    \* no form is in use
    /\ accounts = [e \in Emails |-> "none"]
    /\ sub = [form |-> "none", email |-> "none", password |-> "none",
              profile |-> [fullName |-> "none", country |-> "none",
                           investmentGoals |-> "none",
                           riskTolerance |-> "none",
                           preferredIndustry |-> "none"]]
    /\ fstage = "idle"
    /\ cause = "none"
    /\ actionResult = [success |-> FALSE, error |-> "unset", data |-> "none"]
    /\ events = <<>>
    /\ toast = "none"
    /\ location = "/sign-in"
    \* getAuth has not been called
    /\ authInstance = 0
    /\ betterAuthCalls = 0
    /\ gpc = [c \in AuthCallers |-> "idle"]
    /\ gret = [c \in AuthCallers |-> 0]

\* the auth service (or anything else that writes the collection) stores a
\* user document
StoreUser(email, name, id, oid) ==
    /\ Len(userColl) < MaxUsers
    /\ oid \in {0, Len(userColl) + 1}
    /\ userColl' = Append(userColl, [oid |-> oid, id |-> id, email |-> email,
                                     name |-> name])
    /\ UNCHANGED newsLast
    /\ UNCHANGED <<cacheVars, guardVars, watchVars, authVars, formVars>>

\* getAllUsersForNewsEmail()
GetAllUsersForNewsEmail(fault) ==
    /\ newsLast' = IF fault # "none"
                   THEN \* connectToDatabase() rejects, the connection has
                        \* no db, or the query rejects
                        NewsFailure(fault)
                   ELSE [called |-> TRUE, fault |-> fault, threw |-> FALSE,
                         users |-> SelectUsers(userColl)]
    /\ UNCHANGED userColl
    /\ UNCHANGED <<cacheVars, guardVars, watchVars, authVars, formVars>>

NewsNext ==
    \/ \E email \in EmailValues, name \in NameValues, id \in IdValues,
          oid \in 0..MaxUsers : StoreUser(email, name, id, oid)
    \/ \E fault \in NewsFaults : GetAllUsersForNewsEmail(fault)

SpecNews == NewsInit /\ [][NewsNext]_vars

\* ------------------------------------------------------------------------
\* Connection cache: properties
\* ------------------------------------------------------------------------
InFlight == {p \in Attempts : pstate[p] = "pending"}

\* caller c is suspended on a connect attempt that has not settled
WaitsOnPending(c) == pc[c] = "awaiting" /\ pstate[awaited[c]] = "pending"

\* the step completes the suspended call of c with the failure of its attempt
FailsNow(c) ==
    /\ pc[c] = "awaiting"
    /\ pc'[c] = "done"
    /\ pstate[awaited[c]] = "rejected"

\* the step completes the suspended call of c with a connection
SucceedsNow(c) ==
    /\ pc[c] = "awaiting"
    /\ pc'[c] = "done"
    /\ pstate[awaited[c]] = "fulfilled"

\* the state of the cache as the state machine of the connection names it
CacheState ==
    IF conn # NullConn THEN "READY"
    ELSE IF promise # 0 THEN "CREATING"
    ELSE "EMPTY"

\* the step runs the invocation of c up to its first await or early exit
InvokedNow(c) == pc[c] = "queued" /\ pc'[c] # "queued"

\* C1 (coalescing): callers that wait concurrently on an unsettled creation
\* all wait on one and the same mongoose.connect call, and callers served by
\* the same call get the identical result.
C1_Coalescing ==
    /\ \A c1, c2 \in Callers :
          (WaitsOnPending(c1) /\ WaitsOnPending(c2))
              => awaited[c1] = awaited[c2]
    /\ \A c1, c2 \in Callers :
          (pc[c1] = "done" /\ pc[c2] = "done" /\ awaited[c1] # 0
             /\ awaited[c1] = awaited[c2])
              => result[c1] = result[c2]

\* C2: at every instant at most one mongoose.connect call is unsettled.
C2_AtMostOneInFlight == Cardinality(InFlight) <= 1

\* C3 (idempotent reuse): once a connection is cached it is never replaced,
\* and every call invoked from then on returns it at once without calling
\* mongoose.connect and without touching the cache.
C3_IdempotentReuse ==
    [][conn # NullConn =>
          /\ conn' = conn
          /\ connectCalls' = connectCalls
          /\ \A c \in Callers : InvokedNow(c) =>
                /\ pc'[c] = "done"
                /\ result'[c] = ConnResult(conn)
                /\ promise' = promise]_vars

C3_Witness ==
    \E c \in Callers :
        /\ pc[c] = "done"
        /\ sawConn[c] = Mongoose
        /\ result[c] = ConnResult(Mongoose)
        /\ awaited[c] = 0

C6_FailurePropagates ==
    [][\A c \in Callers :
          FailsNow(c) =>
              /\ result'[c] = ConnectError(awaited[c])
              /\ conn' = NullConn]_vars

\* C7: without MONGODB_URI every call fails with the configuration error,
\* mongoose.connect is never called and the cache stays as initialised.
C7_ConfigError ==
    ~uriSet =>
        /\ connectCalls = 0
        /\ conn = NullConn
        /\ promise = 0
        /\ InFlight = {}
        /\ \A c \in Callers : pc[c] \in {"idle", "queued", "done"}
        /\ \A c \in Callers : pc[c] = "done" => result[c] = ConfigError

C7_Witness ==
    /\ ~uriSet
    /\ \E c \in Callers : pc[c] = "done" /\ result[c] = ConfigError

\* ------------------------------------------------------------------------
\* Access guards: properties
\* ------------------------------------------------------------------------
\* C8: a request on a guarded path without session cookie is answered by the
\* middleware with a redirect to a public entry point, never with
\* NextResponse.next().
C8_GuardRedirectsToPublicEntry ==
    (guardBy = "middleware" /\ ~GetSessionCookie(cred)) =>
        /\ resp.kind = "redirect"
        /\ resp.dest \in PublicEntryPoints
        /\ stage # "route"

\* C9: following the redirects of the guards never leads back to a path
\* already requested in the same navigation (the credential state being
\* fixed, a repeated path is a redirect loop), and the middleware redirects
\* an unauthenticated caller to a public entry point outside the matcher.
C9_NoRedirectLoop ==
    /\ stage = "redirected" => resp.dest \notin visited
    /\ (guardBy = "middleware" /\ resp.kind = "redirect") =>
          (resp.dest \in PublicEntryPoints /\ ~Matcher(resp.dest))

\* C10: on sign-in and sign-up the auth layout redirects to '/' exactly when
\* the credential resolves to a valid session with a user, and renders the
\* form otherwise.
C10_ReverseGuard ==
    guardBy = "authLayout" =>
        /\ (resp = Redirect(RootPath)) <=> SessionUser(cred)
        /\ ~SessionUser(cred) => resp = Render

\* C11 (guard, credential present): on a guarded path a request that carries
\* a session cookie, valid or not, is passed through by middleware(), and
\* the middleware does not call the auth service's getSession.
C11_CookiePassThrough ==
    [][(stage = "request" /\ Matcher(path) /\ cred # "none")
          => /\ guardBy' = "middleware"
             /\ resp' = Pass
             /\ stage' = "route"
             /\ getSessionCalls' = getSessionCalls]_vars

\* a request with an invalid cookie has passed the middleware unvalidated
C11_Witness ==
    /\ guardBy = "middleware"
    /\ cred = "invalid"
    /\ resp = Pass
    /\ getSessionCalls = 0

\* the requested paths that reach middleware()
ExpectedGuarded == {RootPath, WatchlistPath}

\* C12 as stated (guard scope): middleware() runs for every path except the
\* public entry points, the asset paths and the auth service's own paths.
C12_ScopeAsClaimed ==
    [][stage = "request"
          => ((guardBy' = "middleware")
                <=> path \notin {SignInPath, SignUpPath, NextStaticPath,
                                 NextImagePath, FaviconPath, AssetsPath,
                                 ApiAuthPath})]_vars

\* C12 (guard scope, amended): middleware() runs for the pages only; every
\* path under /api, the auth service's or not, bypasses it together with the
\* public entry points and the asset paths, and an asset request never
\* invokes it.
C12_Scope ==
    [][stage = "request"
          => /\ (guardBy' = "middleware") <=> path \in ExpectedGuarded
             /\ path \notin ExpectedGuarded
                   => (guardBy' = "none" /\ resp' = NoResp
                       /\ stage' = "route")]_vars

\* the Inngest endpoint has been answered without the guard having run
C12_Witness ==
    /\ path = ApiInngestPath
    /\ stage = "rendered"
    /\ resp = Served
    /\ guardBy = "none"
    /\ hops = 0

\* C19 (protected layout): the (root) layout renders only for a session that
\* resolves to a user; for every other request, a present but invalid cookie
\* included, it redirects to /sign-in and renders nothing.
C19_RootLayoutGuard ==
    /\ guardBy = "rootLayout"
          => IF cred = "valid"
             THEN resp = Render /\ stage = "rendered"
             ELSE resp = Redirect(SignInPath) /\ stage = "redirected"
    /\ (resp = Render /\ RouteOf(path) = "root") => cred = "valid"

\* a request that passed the middleware with an invalid cookie is redirected
\* to /sign-in by the layout
C19_Witness ==
    /\ guardBy = "rootLayout"
    /\ cred = "invalid"
    /\ hops = 0
    /\ getSessionCalls = 1
    /\ resp = Redirect(SignInPath)

\* C13 (stalled waiters): a caller that awaits an unsettled connect attempt
\* does not complete while the attempt is unsettled, and if every connect
\* attempt eventually settles then every invocation eventually returns a
\* connection or fails.  An attempt stays pending until it settles and there
\* are finitely many of them, so "every attempt eventually settles" is "again
\* and again no attempt is in flight".
C13_StalledOnlyByCreation ==
    /\ [][\A c \in Callers : WaitsOnPending(c) => pc'[c] = "awaiting"]_vars
    /\ []<>(InFlight = {})
          => \A c \in Callers :
                (pc[c] = "queued")
                   ~> (pc[c] = "done" /\ result[c] # NoResult)

\* one caller has completed after awaiting an attempt while another is still
\* suspended on an attempt that has not settled
C13_Witness ==
    \E c, d \in Callers :
        /\ pc[c] = "done"
        /\ awaited[c] # 0
        /\ result[c] # NoResult
        /\ WaitsOnPending(d)

\* C17 (state machine): the cache moves EMPTY -> CREATING -> READY and
\* CREATING -> EMPTY only; READY is never left, the connection is never
\* replaced and no connect is started from READY.
C17_StateMachine ==
    [][/\ CacheState' # CacheState
          => <<CacheState, CacheState'>> \in
                {<<"EMPTY", "CREATING">>, <<"CREATING", "READY">>,
                 <<"CREATING", "EMPTY">>}
       /\ CacheState = "READY"
          => (conn' = conn /\ connectCalls' = connectCalls)]_vars

\* C18 (stale failure handler): when the catch block of a caller clears
\* cached.promise, the slot is empty already or holds the attempt that the
\* caller awaited.
C18_NoStaleClear ==
    [][\A c \in Callers :
          FailsNow(c) => (promise = 0 \/ promise = awaited[c])]_vars

\* C14 (watchlist uniqueness): no two stored items have the same pair of
\* userId and symbol, the stored symbol being the trimmed upper-case form of
\* what was passed; an insertion whose pair is stored already is rejected
\* with an error and changes nothing, and an insertion with a new pair (the
\* same symbol of another user, another symbol of the same user) is stored.
C14_WatchlistUnique ==
    /\ [](\A i, j \in 1..Len(watchlist) :
            (i # j) =>
                <<watchlist[i].userId, watchlist[i].symbol>>
                    # <<watchlist[j].userId, watchlist[j].symbol>>)
    /\ [](\A i \in 1..Len(watchlist) :
            watchlist[i].symbol \in {AaplUpper, <<"M", "S", "F", "T">>})
    /\ [][\A u \in UserIds, raw \in RawSymbols \ {Blank} :
            (wlLast'.userId = u /\ wlLast'.raw = raw)
            => LET key == [userId |-> u, symbol |-> Trim(ToUpperCase(raw))]
                   stored == \E i \in 1..Len(watchlist) : watchlist[i] = key
               IN IF stored
                  THEN /\ wlLast'.outcome = "DuplicateKey"
                       /\ watchlist' = watchlist
                  ELSE /\ wlLast'.outcome = "inserted"
                       /\ watchlist' = Append(watchlist, key)]_vars

\* ' AAPL ' of u1 has been rejected after 'aapl' of u1, AAPL of u2 and msft
\* of u1 were stored
C14_Witness ==
    /\ wlLast = [userId |-> "u1", raw |-> AaplPadded,
                 outcome |-> "DuplicateKey"]
    /\ watchlist = <<[userId |-> "u1", symbol |-> AaplUpper],
                     [userId |-> "u2", symbol |-> AaplUpper],
                     [userId |-> "u1", symbol |-> <<"M", "S", "F", "T">>]>>

\* C15 (single Better Auth instance): under every interleaving of getAuth()
\* calls betterAuth() is constructed at most once and every call that
\* returns, returns the same instance.
C15_SingleInstance ==
    /\ betterAuthCalls <= 1
    /\ \A c, d \in AuthCallers :
          (gpc[c] = "returned" /\ gpc[d] = "returned") => gret[c] = gret[d]

\* C16 (generic authentication errors): whatever makes the sign-in fail, the
\* value signInWithEmail returns is {success: false, error: 'Sign in failed'},
\* and whatever makes the sign-up fail, signUpWithEmail returns
\* {success: false, error: 'Sign up failed'}; a failure for an unregistered
\* e-mail is the same value as a failure for a registered one.
C16_GenericFailure ==
    fstage = "returned"
        => /\ actionResult.success <=> cause = "ok"
           /\ (sub.form = "signIn" /\ cause # "ok")
                 => actionResult = [success |-> FALSE,
                                    error |-> "Sign in failed",
                                    data |-> "none"]
           /\ (sub.form = "signUp" /\ cause # "ok")
                 => actionResult = [success |-> FALSE,
                                    error |-> "Sign up failed",
                                    data |-> "none"]

\* a sign-in with the wrong password for a registered e-mail has returned
C16_Witness ==
    /\ fstage = "returned"
    /\ sub.form = "signIn"
    /\ accounts[sub.email] = "active"
    /\ cause = "wrongPassword"
    /\ ~actionResult.success

\* C20 (form error handling): when login or registration fails the form
\* shows an error toast and the user stays on the form page; the form
\* navigates to '/' only when the server action reports success.
C20_FailureToast ==
    (fstage = "settled" /\ sub.form \in {"signIn", "signUp"})
        => /\ cause # "ok"
                 => (toast # "none" /\ location = FormPage(sub.form))
           /\ location = HomePage => actionResult.success

C23_ActionsNeverThrow ==
    actionResult # NoActionResult
        => /\ actionResult.data # "thrown"
           /\ cause # "ok"
                 => /\ ~actionResult.success
                    /\ actionResult.data = "none"
                    /\ actionResult.error =
                          (IF sub.form = "signIn" THEN "Sign in failed"
                           ELSE IF sub.form = "signUp" THEN "Sign up failed"
                           ELSE "Sign out failed")
           /\ cause = "ok"
                 => IF sub.form = "signOut"
                    THEN actionResult = [success |-> FALSE, error |-> "none",
                                         data |-> "undefined"]
                    ELSE actionResult = [success |-> TRUE, error |-> "none",
                                         data |-> sub.email]

\* a sign-out during which the database failed has ended with the failure
\* value
C23_Witness ==
    /\ sub.form = "signOut"
    /\ cause = "database"
    /\ fstage = "settled"
    /\ actionResult = [success |-> FALSE, error |-> "Sign out failed",
                       data |-> "none"]

\* C24 (users of the news e-mail): getAllUsersForNewsEmail never throws; when
\* the connection or the query fails it returns the empty list, otherwise it
\* returns, in stored order, exactly the users whose email and name are both
\* non-empty, each as {id, email, name} with id the user's id if set, else
\* the string of its _id, else ''.
C24_NewsUsers ==
    [][newsLast' # newsLast
          => /\ newsLast'.called
             /\ ~newsLast'.threw
             /\ newsLast'.fault # "none" => newsLast'.users = <<>>
             /\ newsLast'.fault = "none"
                   => LET kept == SelectSeq(userColl,
                                    LAMBDA d :
                                      /\ d.email \notin {"undefined", "null", ""}
                                      /\ d.name \notin {"undefined", ""})
                      IN /\ Len(newsLast'.users) = Len(kept)
                         /\ \A i \in 1..Len(kept) :
                               /\ newsLast'.users[i].email = kept[i].email
                               /\ newsLast'.users[i].name = kept[i].name
                               /\ newsLast'.users[i].id =
                                     (IF kept[i].id # "undefined"
                                      THEN kept[i].id
                                      ELSE IF kept[i].oid # 0
                                      THEN <<"65a1", "65a2", "65a3",
                                             "65a4">>[kept[i].oid]
                                      ELSE "")]_vars

\* of two stored users the one without a name was left out, and the other
\* was returned under the string of its _id
C24_Witness ==
    /\ Len(userColl) = 2
    /\ userColl[1].email = "ana@example.com"
    /\ userColl[1].name = ""
    /\ userColl[2].id = "undefined"
    /\ newsLast.called
    /\ newsLast.fault = "none"
    /\ newsLast.users = <<[id |-> "65a2", email |-> "ana@example.com",
                           name |-> "Ana"]>>

\* C25 (cache survives re-initialisation): a re-evaluation of the connection
\* module leaves the cached connection and the pending-creation slot as they
\* were and starts no connect, and a call made after it reuses the
\* established connection or the creation in flight instead of starting one.
C25_SurvivesReload ==
    [][/\ reloads' # reloads
          => /\ conn' = conn
             /\ promise' = promise
             /\ pstate' = pstate
             /\ connectCalls' = connectCalls
       /\ \A c \in Callers :
            (/\ reloads # <<>>
             /\ pc[c] = "queued" /\ pc'[c] # "queued"
             /\ \/ conn # NullConn
                \/ (promise # 0 /\ pstate[promise] = "pending"))
            => connectCalls' = connectCalls]_vars

\* the module was re-evaluated while the first creation was in flight, and
\* that creation has become the cached connection without a second connect
C25_Witness ==
    /\ Len(reloads) = 1
    /\ reloads[1].pending
    /\ reloads[1].conn = NullConn
    /\ promise = reloads[1].promise
    /\ conn = Mongoose
    /\ connectCalls = 1
    /\ \E c \in Callers : pc[c] = "done" /\ awaited[c] = 0
                           /\ result[c] = ConnResult(Mongoose)

====
